---- MODULE Spec2Model ----
(***************************************************************************)
(* Model of tubular/github_api.py: the commit-status poller                *)
(* (GitHubAPI.poll_for_commit_successful / _poll_commit under its two      *)
(* backoff decorators), the duplicate-safe pull-request messenger          *)
(* (GitHubAPI.message_pull_request) and its three notice wrappers,         *)
(* default_expected_release_date, GitHubAPI.create_tag,                    *)
(* GitHubAPI.most_recent_good_commit, GitHubAPI.get_pr_range and           *)
(* extract_message_summary; and of the scripts retrieve_base_ami and       *)
(* find_and_advance_pipeline. Each has its own specification (PollSpec     *)
(* and EnvSpec, MsgSpec, NoticeSpec, DateSpec, TagSpec, CommitSpec,        *)
(* PrSpec, SummarySpec, AmiSpec, AdvanceSpec), in which the variables of   *)
(* the others stay at rest. RaceSpec runs two message_pull_request         *)
(* invocations at the same time; PollLiveSpec and DateLiveSpec add the     *)
(* fairness under which termination is checked.                            *)
(*                                                                         *)
(* Strings are sequences of one-character strings, so that str.lower()     *)
(* and the substring test `in` are computed and not assumed.               *)
(***************************************************************************)
EXTENDS Integers, Sequences, FiniteSets, TLC

(***************************************************************************)
(* Strings                                                                 *)
(***************************************************************************)
UpperChars == <<"A", "B", "C", "D", "E", "F", "G", "H", "I", "J", "K", "L", "M",
                "N", "O", "P", "Q", "R", "S", "T", "U", "V", "W", "X", "Y", "Z">>

LowerChars == <<"a", "b", "c", "d", "e", "f", "g", "h", "i", "j", "k", "l", "m",
                "n", "o", "p", "q", "r", "s", "t", "u", "v", "w", "x", "y", "z">>

\* str.lower() on one character: only upper-case letters change.
LowerChar(c) ==
    IF \E i \in DOMAIN UpperChars : UpperChars[i] = c
    THEN LowerChars[CHOOSE i \in DOMAIN UpperChars : UpperChars[i] = c]
    ELSE c

\* str.lower()
lower(s) == [i \in DOMAIN s |-> LowerChar(s[i])]

\* Python's `sub in s` for strings: sub occurs as a contiguous slice of s.
\* The empty string is contained in every string.
str_in(sub, s) ==
    \E k \in 0..(Len(s) - Len(sub)) :
        \A i \in 1..Len(sub) : s[k + i] = sub[i]

\* The value None, distinct from every string (no string holds this token).
None == <<"<None>">>

STR_success     == <<"s", "u", "c", "c", "e", "s", "s">>
STR_SUCCESS     == <<"S", "U", "C", "C", "E", "S", "S">>
STR_failure     == <<"f", "a", "i", "l", "u", "r", "e">>
STR_FAILURE     == <<"F", "A", "I", "L", "U", "R", "E">>
STR_pending     == <<"p", "e", "n", "d", "i", "n", "g">>
STR_PENDING     == <<"P", "E", "N", "D", "I", "N", "G">>
STR_error       == <<"e", "r", "r", "o", "r">>
STR_not_started == <<"n", "o", "t", "_", "s", "t", "a", "r", "t", "e", "d">>
STR_empty       == << >>

(***************************************************************************)
(* The release notices                                                     *)
(***************************************************************************)
PR_ON_STAGE_BASE_MESSAGE ==
    <<"*", "*", "E", "d", "X", " ", "R", "e", "l", "e", "a", "s", "e", " ",
      "N", "o", "t", "i", "c", "e", "*", "*", ":", " ", "T", "h", "i", "s",
      " ", "P", "R", " ", "h", "a", "s", " ", "b", "e", "e", "n", " ", "d",
      "e", "p", "l", "o", "y", "e", "d", " ", "t", "o", " ", "t", "h", "e",
      " ", "s", "t", "a", "g", "i", "n", "g", " ", "e", "n", "v", "i", "r",
      "o", "n", "m", "e", "n", "t", " ">>

\* PR_ON_STAGE_DATE_MESSAGE up to its {date:%A, %B %d, %Y} field; '.' follows it
PR_ON_STAGE_DATE_MESSAGE_HEAD ==
    <<"i", "n", " ", "p", "r", "e", "p", "a", "r", "a", "t", "i", "o", "n",
      " ", "f", "o", "r", " ", "a", " ", "r", "e", "l", "e", "a", "s", "e",
      " ", "t", "o", " ", "p", "r", "o", "d", "u", "c", "t", "i", "o", "n",
      " ", "o", "n", " ">>

PR_ON_PROD_MESSAGE ==
    <<"*", "*", "E", "d", "X", " ", "R", "e", "l", "e", "a", "s", "e", " ",
      "N", "o", "t", "i", "c", "e", "*", "*", ":", " ", "T", "h", "i", "s",
      " ", "P", "R", " ", "h", "a", "s", " ", "b", "e", "e", "n", " ", "d",
      "e", "p", "l", "o", "y", "e", "d", " ", "t", "o", " ", "t", "h", "e",
      " ", "p", "r", "o", "d", "u", "c", "t", "i", "o", "n", " ", "e", "n",
      "v", "i", "r", "o", "n", "m", "e", "n", "t", ".">>

PR_RELEASE_CANCELED_MESSAGE ==
    <<"*", "*", "E", "d", "X", " ", "R", "e", "l", "e", "a", "s", "e", " ",
      "N", "o", "t", "i", "c", "e", "*", "*", ":", " ", "T", "h", "i", "s",
      " ", "P", "R", " ", "h", "a", "s", " ", "b", "e", "e", "n", " ", "r",
      "o", "l", "l", "e", "d", " ", "b", "a", "c", "k", " ", "f", "r", "o",
      "m", " ", "t", "h", "e", " ", "p", "r", "o", "d", "u", "c", "t", "i",
      "o", "n", " ", "e", "n", "v", "i", "r", "o", "n", "m", "e", "n", "t",
      ".">>

\* %A: the names of the weekdays, from date.weekday() = 0 (Monday) on
WeekdayNames == <<
    <<"M", "o", "n", "d", "a", "y">>,
    <<"T", "u", "e", "s", "d", "a", "y">>,
    <<"W", "e", "d", "n", "e", "s", "d", "a", "y">>,
    <<"T", "h", "u", "r", "s", "d", "a", "y">>,
    <<"F", "r", "i", "d", "a", "y">>,
    <<"S", "a", "t", "u", "r", "d", "a", "y">>,
    <<"S", "u", "n", "d", "a", "y">>
    >>

\* %B: the names of the first two months
MonthNames == <<
    <<"J", "a", "n", "u", "a", "r", "y">>,
    <<"F", "e", "b", "r", "u", "a", "r", "y">>
    >>

Digits == <<"0", "1", "2", "3", "4", "5", "6", "7", "8", "9">>

\* %d: the day of the month, zero-padded to two digits
TwoDigits(n) == <<Digits[(n \div 10) + 1], Digits[(n % 10) + 1]>>

\* A date is the number of days from Monday 2 January 2017 on; the dates of
\* January and February 2017 are 0 .. 57.
\* date.weekday(): Monday is 0, Sunday is 6
weekday(d) == d % 7

\* the month (1 or 2) and the day of the month of a date of 0 .. 57
month(d) == IF d <= 29 THEN 1 ELSE 2

day_of_month(d) == IF d <= 29 THEN d + 2 ELSE d - 29

\* '{date:%A, %B %d, %Y}'.format(date=d)
format_date(d) ==
    WeekdayNames[weekday(d) + 1] \o <<",", " ">> \o MonthNames[month(d)] \o <<" ">>
        \o TwoDigits(day_of_month(d)) \o <<",", " ", "2", "0", "1", "7">>

\* (PR_ON_STAGE_BASE_MESSAGE + PR_ON_STAGE_DATE_MESSAGE).format(date=deploy_date)
stage_message(deploy_date) ==
    PR_ON_STAGE_BASE_MESSAGE \o PR_ON_STAGE_DATE_MESSAGE_HEAD \o format_date(deploy_date)
        \o <<".">>

\* a staging notice that looks for the dated message among the comments
stage_filter_dated(deploy_date) == stage_message(deploy_date)

\* the message_filter message_pr_deployed_stage passes
stage_filter(deploy_date) == PR_ON_STAGE_BASE_MESSAGE

(***************************************************************************)
(* Program constants                                                       *)
(***************************************************************************)
MAX_PR_TEST_TRIES_DEFAULT == 5
PR_TEST_INITIAL_WAIT_INTERVAL_DEFAULT == 10
PR_TEST_POLL_INTERVAL_DEFAULT == 10
\* max_tries of the backoff.on_exception decorator of _poll_commit
ON_EXCEPTION_MAX_TRIES == 5
\* _MONDAY, _FRIDAY
MONDAY == 0
FRIDAY == 4
\* _NORMAL_RELEASE_WEEKDAYS = tuple(range(_MONDAY, _FRIDAY + 1))
NORMAL_RELEASE_WEEKDAYS == MONDAY..FRIDAY
\* RELEASE_CUTOFF = time(10, tzinfo=RELEASE_TZ): a time of day is its hour,
\* minute and second
RELEASE_CUTOFF == [hour |-> 10, minute |-> 0, second |-> 0]
\* the status of GitHub's "Unprocessable Entity" answer
UNPROCESSABLE_ENTITY == 422
\* the defaults of SHA_LENGTH and BATCH_SIZE in get_pr_range
SHA_LENGTH_DEFAULT == 10
BATCH_SIZE_DEFAULT == 18
\* the default of max_length in extract_message_summary
MAX_LENGTH_DEFAULT == 50

(***************************************************************************)
(* Bounds of the model                                                     *)
(***************************************************************************)
\* greatest value the environment overrides MAX_PR_TEST_POLL_TRIES with
MaxEnvTries == 2
\* greatest value the environment overrides the two wait settings with
MaxEnvWait == 1
\* greatest number of status entries of a combined status
MaxStatuses == 1
\* greatest number of comments of the pull request
MaxComments == 2
\* greatest length of the message_filter argument
MaxFilterLen == 2
\* latest date of at_time, in days from Monday 2 January 2017 on
MaxDay == 6
\* the last date the date type holds (date.max, 31 December 9999), brought
\* down to a day the search loop reaches: adding a day to it raises
\* OverflowError
MaxDate == 20
\* greatest number of commits of the branch
MaxCommits == 3
\* greatest number of commits between the two SHAs of get_pr_range
MaxPrCommits == 3
\* greatest length of a commit message
MaxMessageLen == 4

VARIABLES
    \* polling configuration, read from the environment when the module is
    \* imported (the decorator arguments of _poll_commit)
    max_tries, initial_wait, interval,
    \* position of the running poll_for_commit_successful call
    pc,
    \* backoff.on_exception: tries made
    exc_tries,
    \* backoff.on_predicate: tries made, values drawn from the wait generator,
    \* last value returned by the body
    tries, wait_n, ret,
    \* outcome of the call: returned value ("True", "False"; "unset" before the
    \* call returns), raised error ("none" when nothing was raised)
    result, error,
    \* the sleep in progress: which layer sleeps and for how long
    sleeping,
    \* history of the call: status fetches issued, socket timeouts met
    fetches, timeouts,
    \* history of the current run of the polling layer: the wait the polling
    \* layer made before each of its fetches
    waits,
    \* what the last status fetch answered
    last_resp,
    \* the pull request on the remote: the bodies of its issue comments, in order
    comments,
    \* the last message_pull_request call: its arguments, what it returned
    \* (the body of the created comment, or None) and what it raised
    msg_call, msg_result, msg_error,
    \* history of the pull request: the number of comments each notice wrapper
    \* created
    posted,
    \* the default_expected_release_date call: its arguments, the position of
    \* the call, the local `proposal`, the number of times the loop advanced it,
    \* what the call returned
    at_time, release_days, date_pc, proposal, advances, release_date,
    \* the repository on the remote: the SHA each tag ref points at, and the
    \* tag objects created
    refs, tags,
    \* the last create_tag call: its arguments, what it returned and raised
    tag_call, tag_result, tag_error,
    \* the commits of the branch, newest first: the combined status of each
    commits,
    \* the most_recent_good_commit call: its position, the position of the
    \* loop in `commits`, the commits whose status was checked (in order), the
    \* commit returned and the error raised
    commit_pc, commit_index, checks, good_commit, commit_error,
    \* what the last is_commit_successful call returned ("unset" before the
    \* first one returns)
    commit_ok,
    \* the environment of the process now: what envvar_get_int would answer
    \* for the three settings of the poller
    environ,
    \* the get_pr_range call: its position, the commits of the comparison
    \* (their SHAs), SHA_LENGTH and BATCH_SIZE, the local `shas`, the index of
    \* the next batch, the search queries issued, the locals `issues` and
    \* `pulls`, the list returned
    pr_pc, pr_commits, sha_length, batch_size, shas, batch_index, queries, issues,
    pulls, pr_result,
    \* the last extract_message_summary call: its arguments, what it returned
    sum_call, summary,
    \* the retrieve_base_ami run: its position, its options, the local ami_id,
    \* what it did so far (in order), its exit status
    ami_pc, ami_opts, ami_id, ami_log, exit_status,
    \* the find_and_advance_pipeline run: its position, its options, the
    \* pipeline fetch_pipeline_to_advance returned, what it did so far (in
    \* order)
    adv_pc, adv_opts, pipeline_to_advance, adv_log,
    \* two message_pull_request invocations running at the same time: their
    \* arguments, the position of each, the comments each one read, what each
    \* one returned
    race_args, race_pc, race_seen, race_result

poll_vars == <<max_tries, initial_wait, interval, pc, exc_tries, tries, wait_n,
               ret, result, error, sleeping, fetches, timeouts, waits,
               last_resp>>

msg_vars == <<comments, msg_call, msg_result, msg_error, posted>>

date_vars == <<at_time, release_days, date_pc, proposal, advances, release_date>>

tag_vars == <<refs, tags, tag_call, tag_result, tag_error>>

commit_vars == <<commits, commit_pc, commit_index, checks, good_commit, commit_error,
                 commit_ok>>

pr_vars == <<pr_pc, pr_commits, sha_length, batch_size, shas, batch_index, queries,
             issues, pulls, pr_result>>

sum_vars == <<sum_call, summary>>

ami_vars == <<ami_pc, ami_opts, ami_id, ami_log, exit_status>>

adv_vars == <<adv_pc, adv_opts, pipeline_to_advance, adv_log>>

race_vars == <<race_args, race_pc, race_seen, race_result>>

vars == <<poll_vars, msg_vars, date_vars, tag_vars, commit_vars, environ, pr_vars,
          sum_vars, ami_vars, adv_vars, race_vars>>

\* what the poller leaves alone, what the messenger leaves alone, ...
outside_poll == <<msg_vars, date_vars, tag_vars, commit_vars, environ, pr_vars,
                  sum_vars, ami_vars, adv_vars, race_vars>>

outside_msg == <<poll_vars, date_vars, tag_vars, commit_vars, environ, pr_vars,
                  sum_vars, ami_vars, adv_vars, race_vars>>

outside_date == <<poll_vars, msg_vars, tag_vars, commit_vars, environ, pr_vars,
                  sum_vars, ami_vars, adv_vars, race_vars>>

outside_tag == <<poll_vars, msg_vars, date_vars, commit_vars, environ, pr_vars,
                  sum_vars, ami_vars, adv_vars, race_vars>>

outside_commit == <<poll_vars, msg_vars, date_vars, tag_vars, environ, pr_vars,
                  sum_vars, ami_vars, adv_vars, race_vars>>

outside_pr == <<poll_vars, msg_vars, date_vars, tag_vars, commit_vars, environ,
                sum_vars, ami_vars, adv_vars, race_vars>>

outside_sum == <<poll_vars, msg_vars, date_vars, tag_vars, commit_vars, environ,
                 pr_vars, ami_vars, adv_vars, race_vars>>

outside_ami == <<poll_vars, msg_vars, date_vars, tag_vars, commit_vars, environ,
                 pr_vars, sum_vars, adv_vars, race_vars>>

outside_adv == <<poll_vars, msg_vars, date_vars, tag_vars, commit_vars, environ,
                 pr_vars, sum_vars, ami_vars, race_vars>>

\* the two invocations write to `comments` only
outside_race == <<poll_vars, msg_call, msg_result, msg_error, posted, date_vars,
                  tag_vars, commit_vars, environ, pr_vars, sum_vars, ami_vars,
                  adv_vars>>

(***************************************************************************)
(* The remote: what one status fetch can answer                            *)
(***************************************************************************)
RemoteStates == {None, STR_empty, STR_success, STR_SUCCESS, STR_failure,
                 STR_FAILURE, STR_pending, STR_PENDING, STR_error}

\* get_commit_combined_statuses answers a CommitCombinedStatus, or raises
\* socket.timeout or another error (UnknownObjectException)
CombinedStatuses == [kind : {"status"}, state : RemoteStates, statuses : 0..MaxStatuses]

NoResp == [kind |-> "none"]

(***************************************************************************)
(* _constant_with_initial_wait: the n-th value the generator yields        *)
(***************************************************************************)
\* the generator without its first `yield initial_wait`
constant_without_initial_wait(n, initial, every) == every

constant_with_initial_wait(n, initial, every) ==
    IF n = 1 THEN initial ELSE every

\* backoff.expo: the n-th value is 2^(n-1)
RECURSIVE expo(_)
expo(n) == IF n <= 1 THEN 1 ELSE 2 * expo(n - 1)

(***************************************************************************)
(* The body of _poll_commit                                                *)
(***************************************************************************)
\* the body without the guard on the number of status entries
poll_commit_body_state_only(commit_status) ==
    IF commit_status.state = None
    THEN STR_not_started
    ELSE lower(commit_status.state)

\* the body without the guard on a None state
poll_commit_body_statuses_only(commit_status) ==
    IF commit_status.statuses < 1
    THEN STR_not_started
    ELSE lower(commit_status.state)

poll_commit_body(commit_status) ==
    IF commit_status.statuses < 1 \/ commit_status.state = None
    THEN STR_not_started
    ELSE lower(commit_status.state)

\* a predicate that stops on 'success' only
poll_predicate_success_only(x) == x # STR_success

\* the predicate of backoff.on_predicate: poll again
poll_predicate(x) == x \notin {STR_success, STR_failure}

\* a comparison that takes everything but 'failure' for a pass
commit_successful_unless_failure(x) == IF x # STR_failure THEN "True" ELSE "False"

\* poll_for_commit_successful: the comparison made on what _poll_commit returns
commit_successful(x) == IF x = STR_success THEN "True" ELSE "False"

\* no message_pull_request call made yet
NoCall == [made |-> FALSE]

\* what message_pull_request returns when it creates nothing: None
NoComment == [is_none |-> TRUE, body |-> << >>, position |-> 0]

\* no notice wrapper has created a comment
NonePosted == [stage |-> 0, prod |-> 0, canceled |-> 0]

(***************************************************************************)
(* Initial state: module imported, no call made                            *)
(***************************************************************************)
\* envvar_get_int(name, default): the default, or the integer the environment
\* holds under that name
envvar_get_int(env_values, default) == {default} \cup env_values

\* the dates and the times of day
Midnight == [hour |-> 0, minute |-> 0, second |-> 0]

\* what default_expected_release_date has returned before it returns
NoDate == [is_none |-> TRUE, date |-> 0, time |-> Midnight]

\* datetime.combine(date, time)
combine(date, time) == [is_none |-> FALSE, date |-> date, time |-> time]

\* the names of the tags and the SHAs of the commits
TagNames == {"release-1", "release-2"}

SHAs == {"abc", "def"}

\* a tag ref that does not exist
NoSha == "none"

NoTagCall == [made |-> FALSE]

\* what create_tag has returned before it returns
NoTag == [is_none |-> TRUE, tag |-> "", object |-> ""]

\* github.GitTag.GitTag
GitTag(tag, object) == [is_none |-> FALSE, tag |-> tag, object |-> object]

\* create_tag raised nothing
NoTagError == [type |-> "none", status |-> 0, tag |-> "", existing |-> "",
               requested |-> ""]

\* no default_expected_release_date call has been made
NoDates ==
    /\ at_time = [date |-> 0, time |-> Midnight]
    /\ release_days = {}
    /\ date_pc = "idle"
    /\ proposal = 0
    /\ advances = 0
    /\ release_date = NoDate

\* no create_tag call has been made
TagAtRest ==
    /\ tag_call = NoTagCall
    /\ tag_result = NoTag
    /\ tag_error = NoTagError

\* the repository has no tag
NoTags ==
    /\ refs = [t \in TagNames |-> NoSha]
    /\ tags = {}
    /\ TagAtRest

\* no most_recent_good_commit call has been made
CommitAtRest ==
    /\ commit_pc = "idle"
    /\ commit_index = 0
    /\ checks = << >>
    /\ good_commit = 0
    /\ commit_error = "none"
    /\ commit_ok = "unset"

\* the branch is not used
NoCommits ==
    /\ commits = << >>
    /\ CommitAtRest

\* no get_pr_range call has been made
NoPrRange ==
    /\ pr_pc = "idle"
    /\ pr_commits = << >>
    /\ sha_length = 0
    /\ batch_size = 0
    /\ shas = << >>
    /\ batch_index = 0
    /\ queries = << >>
    /\ issues = << >>
    /\ pulls = << >>
    /\ pr_result = << >>

NoSummaryCall == [made |-> FALSE]

\* no extract_message_summary call has been made
NoSummaries ==
    /\ sum_call = NoSummaryCall
    /\ summary = << >>

\* the options of a run that has not started
NoOptions == [given |-> FALSE]

\* retrieve_base_ami has not been run
NoAmi ==
    /\ ami_pc = "idle"
    /\ ami_opts = NoOptions
    /\ ami_id = None
    /\ ami_log = << >>
    /\ exit_status = "none"

\* find_and_advance_pipeline has not been run
NoAdvance ==
    /\ adv_pc = "idle"
    /\ adv_opts = NoOptions
    /\ pipeline_to_advance = "none"
    /\ adv_log = << >>

\* no two invocations run at the same time
NoRace ==
    /\ race_args = NoOptions
    /\ race_pc = << >>
    /\ race_seen = << >>
    /\ race_result = << >>

\* no poll_for_commit_successful call has been made
PollAtRest ==
    /\ pc = "idle"
    /\ exc_tries = 0
    /\ tries = 0
    /\ wait_n = 0
    /\ ret = None
    /\ result = "unset"
    /\ error = "none"
    /\ sleeping = [layer |-> "none", seconds |-> 0]
    /\ fetches = 0
    /\ timeouts = 0
    /\ waits = << >>
    /\ last_resp = NoResp

\* no message_pull_request call has been made
MsgAtRest ==
    /\ msg_call = NoCall
    /\ msg_result = NoComment
    /\ msg_error = "none"
    /\ posted = NonePosted

\* the poller is not used: the environment sets none of its variables
NoPolling ==
    /\ max_tries = MAX_PR_TEST_TRIES_DEFAULT
    /\ initial_wait = PR_TEST_INITIAL_WAIT_INTERVAL_DEFAULT
    /\ interval = PR_TEST_POLL_INTERVAL_DEFAULT
    /\ environ = <<max_tries, initial_wait, interval>>
    /\ PollAtRest

\* the messenger is not used
NoMessaging ==
    /\ comments = << >>
    /\ MsgAtRest

PollInit ==
    /\ max_tries \in envvar_get_int(1..MaxEnvTries, MAX_PR_TEST_TRIES_DEFAULT)
    /\ initial_wait \in envvar_get_int(1..MaxEnvWait, PR_TEST_INITIAL_WAIT_INTERVAL_DEFAULT)
    /\ interval \in envvar_get_int(1..MaxEnvWait, PR_TEST_POLL_INTERVAL_DEFAULT)
    /\ environ = <<max_tries, initial_wait, interval>>
    /\ PollAtRest
    /\ NoMessaging
    /\ NoDates
    /\ NoTags
    /\ NoCommits
    /\ NoPrRange
    /\ NoSummaries
    /\ NoAmi
    /\ NoAdvance
    /\ NoRace

Config == <<max_tries, initial_wait, interval>>

(***************************************************************************)
(* poll_for_commit_successful(sha): the call enters backoff.on_exception's *)
(* retry(), which enters backoff.on_predicate's retry()                    *)
(***************************************************************************)
poll_for_commit_successful ==
    /\ pc \in {"idle", "returned", "raised"}
    /\ pc' = "poll"
    /\ exc_tries' = 1
    /\ tries' = 0
    /\ wait_n' = 0
    /\ ret' = None
    /\ result' = "unset"
    /\ error' = "none"
    /\ sleeping' = [layer |-> "none", seconds |-> 0]
    /\ fetches' = 0
    /\ timeouts' = 0
    /\ waits' = << >>
    /\ last_resp' = NoResp
    /\ UNCHANGED <<Config, outside_poll>>

\* on_predicate giving up one try late
poll_tries_exceeded_late(t) == t = max_tries + 1

\* on_predicate's loop reached `tries == max_tries`
poll_tries_exceeded(t) == t = max_tries

\* on_exception giving up one try early
exc_tries_exceeded_early(t) == t = ON_EXCEPTION_MAX_TRIES - 1

\* on_exception's loop reached `tries == max_tries`
exc_tries_exceeded(t) == t = ON_EXCEPTION_MAX_TRIES

(***************************************************************************)
(* One try of the polling layer: the body runs one status fetch.           *)
(***************************************************************************)
\* what every status fetch does, whatever it answers
Fetched(resp) ==
    /\ pc = "poll"
    /\ tries' = tries + 1
    /\ last_resp' = resp
    /\ fetches' = fetches + 1
    /\ waits' = Append(waits, IF sleeping.layer = "on_predicate"
                              THEN sleeping.seconds ELSE 0)
    /\ UNCHANGED <<Config, outside_poll>>

\* the fetch answers a combined status
FetchStatus ==
    \E resp \in CombinedStatuses :
        LET r == poll_commit_body(resp)
        IN
        /\ Fetched(resp)
        /\ ret' = r
        /\ IF poll_predicate(r) /\ ~poll_tries_exceeded(tries + 1)
           THEN \* next(wait), then time.sleep(seconds)
                LET seconds == constant_with_initial_wait(wait_n + 1, initial_wait, interval)
                IN
                /\ wait_n' = wait_n + 1
                /\ sleeping' = [layer |-> "on_predicate", seconds |-> seconds]
                /\ pc' = "sleep"
                /\ UNCHANGED result
           ELSE \* on_predicate returns ret, on_exception returns it, and
                \* poll_for_commit_successful compares it
                /\ pc' = "returned"
                /\ result' = commit_successful(r)
                /\ sleeping' = [layer |-> "none", seconds |-> 0]
                /\ UNCHANGED wait_n
        /\ UNCHANGED <<exc_tries, error, timeouts>>

\* an on_exception decorator that catches every exception
on_exception_catches_all(exc) == TRUE

\* the exception on_exception is given to catch: socket.timeout
on_exception_catches(exc) == exc = "socket.timeout"

\* the body raises exc: on_predicate lets every exception through;
\* on_exception retries the ones it catches until its tries are used up, and
\* lets the others through
Raised(exc) ==
    IF on_exception_catches(exc) /\ ~exc_tries_exceeded(exc_tries)
    THEN \* full jitter over expo, then time.sleep(seconds)
         /\ \E seconds \in {0, expo(exc_tries)} :
               sleeping' = [layer |-> "on_exception", seconds |-> seconds]
         /\ pc' = "sleep"
         /\ UNCHANGED error
    ELSE \* raise
         /\ pc' = "raised"
         /\ error' = exc
         /\ sleeping' = [layer |-> "none", seconds |-> 0]

\* the fetch raises socket.timeout
FetchTimeout ==
    /\ Fetched([kind |-> "timeout"])
    /\ timeouts' = timeouts + 1
    /\ Raised("socket.timeout")
    /\ UNCHANGED <<exc_tries, wait_n, ret, result>>

\* the fetch raises another error: the commit is not found
FetchError ==
    /\ Fetched([kind |-> "unknown_object"])
    /\ Raised("UnknownObjectException")
    /\ UNCHANGED <<exc_tries, wait_n, ret, result, timeouts>>

(***************************************************************************)
(* The sleep ends.                                                         *)
(***************************************************************************)
\* on_predicate's sleep ends: `continue`, the loop makes its next try
PollWake ==
    /\ pc = "sleep"
    /\ sleeping.layer = "on_predicate"
    /\ pc' = "poll"
    /\ UNCHANGED <<exc_tries, tries, wait_n, ret, result, error, sleeping, fetches,
                   timeouts, waits, last_resp>>
    /\ UNCHANGED <<Config, outside_poll>>

\* on_exception's sleep ends: its loop makes its next try, which calls the
\* function on_predicate decorated: a new retry() with tries = 0 and a new
\* wait generator
ExcWake ==
    /\ pc = "sleep"
    /\ sleeping.layer = "on_exception"
    /\ pc' = "poll"
    /\ exc_tries' = exc_tries + 1
    /\ tries' = 0
    /\ wait_n' = 0
    /\ ret' = None
    /\ waits' = << >>
    /\ UNCHANGED <<result, error, sleeping, fetches, timeouts, last_resp>>
    /\ UNCHANGED <<Config, outside_poll>>

PollNext ==
    \/ poll_for_commit_successful
    \/ FetchStatus
    \/ FetchTimeout
    \/ FetchError
    \/ PollWake
    \/ ExcWake

PollSpec == PollInit /\ [][PollNext]_vars

(***************************************************************************)
(* The environment changes between two calls; the module was imported with *)
(* MAX_PR_TEST_POLL_TRIES=2, PR_TEST_INITIAL_WAIT_INTERVAL=1 and           *)
(* PR_TEST_POLL_INTERVAL=1                                                 *)
(***************************************************************************)
ImportEnviron == <<2, 1, 1>>

\* what envvar_get_int can answer for the three settings: each one unset (its
\* default) or set
Environs ==
    envvar_get_int({1, 2}, MAX_PR_TEST_TRIES_DEFAULT)
        \X envvar_get_int({1}, PR_TEST_INITIAL_WAIT_INTERVAL_DEFAULT)
        \X envvar_get_int({1}, PR_TEST_POLL_INTERVAL_DEFAULT)

EnvInit ==
    /\ environ = ImportEnviron
    \* the decorator arguments are evaluated when the class body runs
    /\ max_tries = environ[1]
    /\ initial_wait = environ[2]
    /\ interval = environ[3]
    /\ PollAtRest
    /\ NoMessaging
    /\ NoDates
    /\ NoTags
    /\ NoCommits
    /\ NoPrRange
    /\ NoSummaries
    /\ NoAmi
    /\ NoAdvance
    /\ NoRace

\* os.environ changes while no call is running
setenv ==
    /\ pc \in {"idle", "returned", "raised"}
    /\ \E e \in Environs :
        /\ e # environ
        /\ environ' = e
    /\ UNCHANGED <<poll_vars, msg_vars, date_vars, tag_vars, commit_vars, pr_vars,
                   sum_vars, ami_vars, adv_vars, race_vars>>

EnvNext ==
    \/ poll_for_commit_successful
    \/ FetchStatus
    \/ FetchTimeout
    \/ FetchError
    \/ PollWake
    \/ ExcWake
    \/ setenv

EnvSpec == EnvInit /\ [][EnvNext]_vars

(***************************************************************************)
(* Properties of the commit-status poller (checked under PollSpec)         *)
(***************************************************************************)
\* the combined statuses a fetch can answer that read as 'success' once
\* lower-cased and that carry at least one status entry
SuccessAnswers == {r \in CombinedStatuses :
                      r.statuses >= 1 /\ r.state \in {STR_success, STR_SUCCESS}}

FailureAnswers == {r \in CombinedStatuses :
                      r.statuses >= 1 /\ r.state \in {STR_failure, STR_FAILURE}}

TerminalAnswers == SuccessAnswers \cup FailureAnswers

Running == pc \in {"poll", "sleep"}

\* C1: a poll_for_commit_successful call that returns, returns True exactly
\* when the state its last fetch observed is 'success' once lower-cased (and
\* the commit has a status entry); every other last observation ('failure',
\* 'pending', 'not_started', anything else, the attempt budget exhausted or
\* not) makes it return False.
C1_TrueIffLastStateSuccess ==
    pc = "returned" =>
        /\ result \in {"True", "False"}
        /\ (result = "True") <=> (last_resp \in SuccessAnswers)

C1_Witness ==
    /\ pc = "returned"
    /\ result = "True"
    /\ fetches >= 2
    /\ last_resp.kind = "status"
    /\ last_resp.state = STR_SUCCESS

\* C2: polling goes on while the observed state is neither 'success' nor
\* 'failure' and stops at the first terminal state: no status fetch follows a
\* fetch that answered 'success' or 'failure'; a call that returns on a
\* non-terminal state has used up its attempts; and when a first fetch
\* answers PENDING and the second SUCCESS the call returns True with exactly
\* 2 fetches made.
C2_StopsAtFirstTerminalState ==
    /\ [](last_resp \in TerminalAnswers => pc = "returned")
    /\ []((pc = "returned" /\ last_resp \notin TerminalAnswers) => tries = max_tries)
    /\ []((max_tries >= 2 /\ fetches = 1 /\ last_resp.kind = "status"
           /\ last_resp \notin TerminalAnswers) => Running)
    /\ [][(last_resp \in TerminalAnswers) => (fetches' = fetches \/ fetches' = 0)]_vars
    /\ [][(/\ fetches = 1 /\ fetches' = 2
           /\ last_resp.kind = "status" /\ last_resp.state = STR_PENDING
           /\ last_resp.statuses >= 1
           /\ last_resp' \in SuccessAnswers)
          => (pc' = "returned" /\ result' = "True")]_vars

C2_Witness ==
    /\ pc = "returned"
    /\ result = "True"
    /\ fetches = 2
    /\ timeouts = 0
    /\ waits = <<0, initial_wait>>
    /\ last_resp \in SuccessAnswers

\* C3: within one call no more status fetches are made than max_tries, and a
\* call that reaches the cap on a non-terminal state returns (False) and does
\* not raise.
C3_FetchesCappedInCall ==
    /\ fetches <= max_tries
    /\ (tries = max_tries /\ last_resp.kind = "status" /\ last_resp \notin TerminalAnswers)
          => (pc = "returned" /\ result = "False" /\ error = "none")

\* C4: a socket timeout is retried inside the poll attempt it hit: when the
\* retry begins, the poll attempts made before the timeout are still counted
\* and the wait generator is where it was (initial_wait is not yielded again).
C4_TimeoutKeepsPollProgress ==
    [][(pc = "sleep" /\ sleeping.layer = "on_exception" /\ pc' = "poll")
       => (tries' = tries - 1 /\ wait_n' = wait_n)]_vars

\* the wait the schedule puts before the k-th fetch of the polling layer
ScheduledWait(k) == IF k = 1 THEN 0 ELSE IF k = 2 THEN initial_wait ELSE interval

C6_TimeoutsRetriedThenRaised ==
    /\ (last_resp.kind = "timeout" /\ timeouts < 5) => (Running /\ error = "none")
    /\ (last_resp.kind = "timeout" /\ timeouts >= 5) =>
          (pc = "raised" /\ error = "socket.timeout" /\ result = "unset")
    /\ (error = "socket.timeout") => (pc = "raised" /\ timeouts = 5)
    /\ timeouts <= 5

C6_Witness ==
    /\ pc = "raised"
    /\ error = "socket.timeout"
    /\ timeouts = 5
    /\ fetches > 5

\* C7: a fetch that answers zero status entries makes the body return
\* 'not_started' whatever the state field holds; the observation is not
\* terminal (the call only ends on it when the attempts are used up) and the
\* call never returns True on it.
C7_NoStatusesIsNotStarted ==
    (last_resp.kind = "status" /\ last_resp.statuses = 0) =>
        /\ ret = STR_not_started
        /\ pc # "raised"
        /\ pc = "returned" => (result = "False" /\ tries = max_tries)

C7_Witness ==
    /\ last_resp.kind = "status"
    /\ last_resp.statuses = 0
    /\ last_resp.state \in {STR_success, STR_failure}
    /\ ret = STR_not_started
    /\ Running

\* C8 as stated: with at least one status entry and a state that is None or
\* the empty string, the body returns 'not_started' and does not raise.
C8_UnsetOrEmptyIsNotStarted ==
    (/\ last_resp.kind = "status"
     /\ last_resp.statuses >= 1
     /\ last_resp.state \in {None, STR_empty}) =>
        (ret = STR_not_started /\ pc # "raised")

\* C8, amended: with at least one status entry, a None state makes the body
\* return 'not_started' and an empty state makes it return the empty string;
\* neither raises, and both are non-terminal: the call only ends on them when
\* the attempts are used up, and then returns False.
C8_UnsetIsNotStartedEmptyIsEmpty ==
    (/\ last_resp.kind = "status"
     /\ last_resp.statuses >= 1
     /\ last_resp.state \in {None, STR_empty}) =>
        /\ last_resp.state = None => ret = STR_not_started
        /\ last_resp.state = STR_empty => ret = STR_empty
        /\ pc # "raised"
        /\ error = "none"
        /\ pc = "returned" => (result = "False" /\ tries = max_tries)

C8_Witness ==
    /\ last_resp.kind = "status"
    /\ last_resp.statuses >= 1
    /\ last_resp.state = None
    /\ ret = STR_not_started
    /\ pc = "returned"

(***************************************************************************)
(* message_pull_request                                                    *)
(***************************************************************************)
MsgChars == {"a", "A", "b"}

\* the strings over MsgChars of length at most n
Strs(n) == UNION {[1..k -> MsgChars] : k \in 0..n}

\* the messages a call posts
Messages == {<<"b">>, <<"A", "b">>, <<"b", "A", "B">>}

\* the bodies of the comments of a pull request: messages posted earlier and
\* what other people wrote
CommentBodies == Messages \cup {<< >>, <<"b", "A">>, <<"a", "a">>}

\* the comment lists a pull request can hold before a call
CommentLists == UNION {[1..k -> CommentBodies] : k \in 0..MaxComments}

\* the comment message_pull_request created and returns
IssueComment(body, position) == [is_none |-> FALSE, body |-> body, position |-> position]

\* _not_duplicate's loop from the i-th comment on: `break` on the first
\* comment that holds the message, `else` when the loop runs out
RECURSIVE not_duplicate_loop(_, _, _)
not_duplicate_loop(pr_messages, new_message, i) ==
    IF i > Len(pr_messages) THEN TRUE
    ELSE IF str_in(new_message, lower(pr_messages[i])) THEN FALSE
    ELSE not_duplicate_loop(pr_messages, new_message, i + 1)

\* _not_duplicate without `new_message = new_message.lower()`
not_duplicate_filter_as_given(pr_messages, new_message) ==
    not_duplicate_loop(pr_messages, new_message, 1)

not_duplicate(pr_messages, new_message) ==
    not_duplicate_loop(pr_messages, lower(new_message), 1)

\* the guard without force_message
should_create_unforced(force_message, pr_messages, message_filter) ==
    not_duplicate(pr_messages, message_filter)

\* the test that guards create_issue_comment
should_create(force_message, pr_messages, message_filter) ==
    force_message \/ not_duplicate(pr_messages, message_filter)

MsgInit ==
    /\ comments \in CommentLists
    /\ MsgAtRest
    /\ NoPolling
    /\ NoDates
    /\ NoTags
    /\ NoCommits
    /\ NoPrRange
    /\ NoSummaries
    /\ NoAmi
    /\ NoAdvance
    /\ NoRace

\* a handler that takes every error of get_pull for a missing pull request
get_pull_error_any(exc) == "InvalidPullRequestError"

\* what message_pull_request raises when get_pull raises exc: `except
\* UnknownObjectException` raises InvalidPullRequestError, every other error
\* passes through
get_pull_error(exc) ==
    IF exc = "UnknownObjectException" THEN "InvalidPullRequestError" ELSE exc

\* a call begins: its arguments, what get_pull answers ("ok" or the error it
\* raises) and the comments the pull request held before it
Called(message, message_filter, force_message, pull) ==
    /\ ~msg_call.made
    /\ msg_call' = [made |-> TRUE, message |-> message,
                    message_filter |-> message_filter,
                    force_message |-> force_message, pull |-> pull,
                    before |-> comments]

\* a call that posts the text it looked for
created_body_filter(message, message_filter) == message_filter

\* the body of the comment the call creates: create_issue_comment(message)
created_body(message, message_filter) == message

\* message_pull_request(pr_number, message, message_filter, force_message),
\* get_pull answering the pull request ("ok") or raising
MessagePullRequest(message, message_filter, force_message, pull) ==
    /\ Called(message, message_filter, force_message, pull)
    /\ IF pull = "ok"
       THEN /\ msg_error' = "none"
            /\ IF should_create(force_message, comments, message_filter)
               THEN /\ Len(comments) < MaxComments
                    /\ comments' = Append(comments, created_body(message, message_filter))
                    /\ msg_result' = IssueComment(created_body(message, message_filter),
                                                  Len(comments) + 1)
               ELSE /\ msg_result' = NoComment
                    /\ UNCHANGED comments
       ELSE /\ msg_error' = get_pull_error(pull)
            /\ msg_result' = NoComment
            /\ UNCHANGED comments
    /\ UNCHANGED outside_msg

\* get_pull answers the pull request
message_pull_request ==
    \E message \in Messages, message_filter \in Strs(MaxFilterLen),
       force_message \in BOOLEAN :
        /\ MessagePullRequest(message, message_filter, force_message, "ok")
        /\ UNCHANGED posted

\* get_pull raises UnknownObjectException: the pull request does not exist
message_pull_request_unknown ==
    \E message \in Messages, message_filter \in Strs(MaxFilterLen),
       force_message \in BOOLEAN :
        /\ MessagePullRequest(message, message_filter, force_message,
                              "UnknownObjectException")
        /\ UNCHANGED posted

\* get_pull raises another error
message_pull_request_failed ==
    \E message \in Messages, message_filter \in Strs(MaxFilterLen),
       force_message \in BOOLEAN, exc \in {"GithubException", "socket.timeout"} :
        /\ MessagePullRequest(message, message_filter, force_message, exc)
        /\ UNCHANGED posted

\* the caller is done with what the call returned or raised
message_done ==
    /\ msg_call.made
    /\ msg_call' = NoCall
    /\ msg_result' = NoComment
    /\ msg_error' = "none"
    /\ UNCHANGED <<comments, posted>>
    /\ UNCHANGED outside_msg

MsgNext ==
    \/ message_pull_request
    \/ message_pull_request_unknown
    \/ message_pull_request_failed
    \/ message_done

MsgSpec == MsgInit /\ [][MsgNext]_vars

(***************************************************************************)
(* The notice wrappers: message_pr_deployed_stage,                         *)
(* message_pr_deployed_prod, message_pr_release_canceled                   *)
(***************************************************************************)
\* the deploy dates of the staging notice: Tuesday 10, Friday 13 and Monday
\* 16 January 2017
DeployDates == {8, 11, 14}

\* what get_pull answers or raises
PullOutcomes == {"ok", "UnknownObjectException", "GithubException"}

\* the comments a pull request holds before the first notice: none, somebody
\* else's remark, somebody quoting the production notice in lower case
NoticeCommentLists == {<< >>, << <<"b">> >>, << lower(PR_ON_PROD_MESSAGE) >>}

\* the notices are repeated with force_message left at its default
NoticeForce == {FALSE}

\* the wrapper's entry of `posted` counts the comment the call creates
Posted(wrapper) ==
    posted' = [posted EXCEPT ![wrapper] =
                  IF Len(comments') > Len(comments) THEN @ + 1 ELSE @]

NoticeInit ==
    /\ comments \in NoticeCommentLists
    /\ MsgAtRest
    /\ NoPolling
    /\ NoDates
    /\ NoTags
    /\ NoCommits
    /\ NoPrRange
    /\ NoSummaries
    /\ NoAmi
    /\ NoAdvance
    /\ NoRace

message_pr_deployed_stage ==
    \E deploy_date \in DeployDates, force_message \in NoticeForce, pull \in PullOutcomes :
        /\ MessagePullRequest(stage_message(deploy_date), stage_filter(deploy_date),
                              force_message, pull)
        /\ Posted("stage")

message_pr_deployed_prod ==
    \E force_message \in NoticeForce, pull \in PullOutcomes :
        /\ MessagePullRequest(PR_ON_PROD_MESSAGE, PR_ON_PROD_MESSAGE, force_message, pull)
        /\ Posted("prod")

message_pr_release_canceled ==
    \E force_message \in NoticeForce, pull \in PullOutcomes :
        /\ MessagePullRequest(PR_RELEASE_CANCELED_MESSAGE, PR_RELEASE_CANCELED_MESSAGE,
                              force_message, pull)
        /\ Posted("canceled")

NoticeNext ==
    \/ message_pr_deployed_stage
    \/ message_pr_deployed_prod
    \/ message_pr_release_canceled
    \/ message_done

NoticeSpec == NoticeInit /\ [][NoticeNext]_vars

(***************************************************************************)
(* Properties of message_pull_request (checked under MsgSpec)              *)
(***************************************************************************)
\* the positions of the comments whose lower-cased body holds the lower-cased
\* filter
MatchingPositions(pr_messages, message_filter) ==
    {i \in 1..Len(pr_messages) : str_in(lower(message_filter), lower(pr_messages[i]))}

\* the call found the pull request
Messaged == msg_call.made /\ msg_error = "none"

\* C9: with force_message false, when the lower-cased filter is a substring
\* of the lower-cased body of some existing comment, at whatever position,
\* the call returns None and the comments of the pull request are what they
\* were.
C9_DuplicateSuppressed ==
    (/\ Messaged
     /\ ~msg_call.force_message
     /\ MatchingPositions(msg_call.before, msg_call.message_filter) # {}) =>
        /\ msg_result = NoComment
        /\ comments = msg_call.before

C9_Witness ==
    /\ Messaged
    /\ ~msg_call.force_message
    /\ msg_call.message_filter = <<"a", "b">>
    /\ msg_call.before = << <<"b">>, <<"b", "A", "B">> >>
    /\ msg_result = NoComment

\* C10: with force_message true the call appends exactly one comment whose
\* body is the message and returns that comment, whether or not an existing
\* comment matches the filter.
C10_ForceAlwaysCreates ==
    (Messaged /\ msg_call.force_message) =>
        /\ comments = Append(msg_call.before, msg_call.message)
        /\ msg_result = IssueComment(msg_call.message, Len(msg_call.before) + 1)

C10_Witness ==
    /\ Messaged
    /\ msg_call.force_message
    /\ MatchingPositions(msg_call.before, msg_call.message_filter) # {}
    /\ ~msg_result.is_none
    /\ Len(comments) = Len(msg_call.before) + 1

\* C11: when no existing comment holds the filter (case-insensitively), the
\* pull request having comments or none, the call appends exactly one comment
\* whose body is the message (not the filter) and returns that comment.
C11_NoMatchCreates ==
    (Messaged /\ MatchingPositions(msg_call.before, msg_call.message_filter) = {}) =>
        /\ comments = Append(msg_call.before, msg_call.message)
        /\ msg_result = IssueComment(msg_call.message, Len(msg_call.before) + 1)

C11_Witness ==
    /\ Messaged
    /\ ~msg_call.force_message
    /\ msg_call.before = << <<"a", "a">> >>
    /\ msg_call.message_filter = <<"A", "b">>
    /\ msg_call.message = <<"b", "A", "B">>
    /\ comments = << <<"a", "a">>, <<"b", "A", "B">> >>
    /\ msg_result.body = <<"b", "A", "B">>

\* C12: when get_pull raises UnknownObjectException (the pull request does
\* not exist) the call raises InvalidPullRequestError and creates no comment;
\* when get_pull raises another error, the call raises that error and not
\* InvalidPullRequestError, and creates no comment.
C12_MissingPullRequestIsDistinct ==
    (msg_call.made /\ msg_call.pull # "ok") =>
        /\ msg_call.pull = "UnknownObjectException" => msg_error = "InvalidPullRequestError"
        /\ msg_call.pull # "UnknownObjectException" => msg_error = msg_call.pull
        /\ comments = msg_call.before
        /\ msg_result = NoComment

C12_Witness ==
    /\ msg_call.made
    /\ msg_call.pull = "GithubException"
    /\ msg_error = "GithubException"
    /\ msg_call.force_message

(***************************************************************************)
(* Properties of the notice wrappers (checked under NoticeSpec)            *)
(***************************************************************************)
\* the number of comments of the pull request with this body
CountBody(body) == Cardinality({i \in 1..Len(comments) : comments[i] = body})

\* the number of staging notices among the comments, whatever their date
CountStage == Cardinality({i \in 1..Len(comments) :
                              \E d \in DeployDates : comments[i] = stage_message(d)})

\* C13: after any sequence of unforced calls of the notice wrappers on one
\* pull request, each wrapper has created at most one comment, and the pull
\* request holds at most one staging notice (whatever the deploy dates of the
\* calls), one production notice and one cancellation notice.
C13_NoticesPostedOnce ==
    /\ posted.stage <= 1
    /\ posted.prod <= 1
    /\ posted.canceled <= 1
    /\ CountStage <= 1
    /\ CountBody(PR_ON_PROD_MESSAGE) <= 1
    /\ CountBody(PR_RELEASE_CANCELED_MESSAGE) <= 1

C13_Witness ==
    /\ Messaged
    /\ msg_call.message = stage_message(11)
    /\ msg_call.before = << stage_message(8) >>
    /\ msg_result = NoComment
    /\ comments = << stage_message(8) >>
    /\ posted.stage = 1

(***************************************************************************)
(* default_expected_release_date(at_time, release_days)                    *)
(***************************************************************************)
\* the times of day of at_time: early morning, around the cutoff, after it
TimesOfDay == [hour : {4, 9, 10, 11}, minute : {0, 59}, second : {0, 59}]

\* the values of at_time: a date and a time of day (at_time.date() and
\* at_time.timetz())
AtTimes == [date : 0..MaxDay, time : TimesOfDay]

\* the values of release_days: the sets of weekdays, and a set that holds no
\* weekday
ReleaseDaySets == SUBSET (0..6) \cup {{7}}

\* a comparison that lets the cutoff itself count as before the cutoff
time_le(a, b) ==
    \/ a.hour < b.hour
    \/ a.hour = b.hour /\ a.minute < b.minute
    \/ a.hour = b.hour /\ a.minute = b.minute /\ a.second <= b.second

\* a < b of two times of day
time_lt(a, b) ==
    \/ a.hour < b.hour
    \/ a.hour = b.hour /\ a.minute < b.minute
    \/ a.hour = b.hour /\ a.minute = b.minute /\ a.second < b.second

\* a first proposal that is never today
first_proposal_tomorrow(at) == at.date + 1

\* the proposal the loop starts from
first_proposal(at) ==
    IF time_lt(at.time, RELEASE_CUTOFF) THEN at.date ELSE at.date + 1

\* a loop that looks for a normal release weekday, whatever release_days is
is_release_day_normal(d, days) == weekday(d) \in NORMAL_RELEASE_WEEKDAYS

\* proposal.weekday() in release_days
is_release_day(d, days) == weekday(d) \in days

DateInit ==
    /\ NoDates
    /\ NoPolling
    /\ NoMessaging
    /\ NoTags
    /\ NoCommits
    /\ NoPrRange
    /\ NoSummaries
    /\ NoAmi
    /\ NoAdvance
    /\ NoRace

\* the call computes its first proposal and enters the loop
default_expected_release_date ==
    /\ date_pc = "idle"
    /\ \E at \in AtTimes, days \in ReleaseDaySets :
        /\ at_time' = at
        /\ release_days' = days
        /\ proposal' = first_proposal(at)
        /\ advances' = 0
        /\ release_date' = NoDate
        /\ date_pc' = "loop"
        /\ UNCHANGED outside_date

\* a loop that goes on a week at a time
next_week(d) == d + 7

\* proposal + timedelta(days=1)
next_day(d) == d + 1

\* the body of the loop: proposal = proposal + timedelta(days=1)
advance_proposal ==
    /\ date_pc = "loop"
    /\ ~is_release_day(proposal, release_days)
    /\ next_day(proposal) <= MaxDate
    /\ proposal' = next_day(proposal)
    /\ advances' = advances + 1
    /\ UNCHANGED <<at_time, release_days, date_pc, release_date>>
    /\ UNCHANGED outside_date

\* the body of the loop when the sum is past date.max: date.__add__ raises
\* OverflowError, which leaves the call
advance_overflows ==
    /\ date_pc = "loop"
    /\ ~is_release_day(proposal, release_days)
    /\ next_day(proposal) > MaxDate
    /\ date_pc' = "raised"
    /\ UNCHANGED <<at_time, release_days, proposal, advances, release_date>>
    /\ UNCHANGED outside_date

\* the loop ends: return datetime.combine(proposal, RELEASE_CUTOFF)
return_release_date ==
    /\ date_pc = "loop"
    /\ is_release_day(proposal, release_days)
    /\ release_date' = combine(proposal, RELEASE_CUTOFF)
    /\ date_pc' = "returned"
    /\ UNCHANGED <<at_time, release_days, proposal, advances>>
    /\ UNCHANGED outside_date

\* the caller is done with the date or the error
release_date_done ==
    /\ date_pc \in {"returned", "raised"}
    /\ at_time' = [date |-> 0, time |-> Midnight]
    /\ release_days' = {}
    /\ date_pc' = "idle"
    /\ proposal' = 0
    /\ advances' = 0
    /\ release_date' = NoDate
    /\ UNCHANGED outside_date

DateNext ==
    \/ default_expected_release_date
    \/ advance_proposal
    \/ advance_overflows
    \/ return_release_date
    \/ release_date_done

DateSpec == DateInit /\ [][DateNext]_vars

(***************************************************************************)
(* Properties of default_expected_release_date (checked under DateSpec)    *)
(***************************************************************************)
\* the time of day of at_time is strictly before 10:00
BeforeTen == at_time.time.hour < 10

\* the candidate date: at_time's date before 10:00, the day after otherwise
Candidate == IF BeforeTen THEN at_time.date ELSE at_time.date + 1

\* C14: the call returns the cutoff time (10:00) on the earliest date on or
\* after the candidate date whose weekday is in release_days: the returned
\* weekday is an allowed one and no date from the candidate date up to the day
\* before the returned date has an allowed weekday.
C14_EarliestAllowedDate ==
    date_pc = "returned" =>
        /\ ~release_date.is_none
        /\ release_date.time = [hour |-> 10, minute |-> 0, second |-> 0]
        /\ weekday(release_date.date) \in release_days
        /\ release_date.date >= Candidate
        /\ \A d \in Candidate..(release_date.date - 1) : weekday(d) \notin release_days

\* Friday 6 January 2017, 11:00:00, Monday to Friday allowed: Monday 9 January
C14_Witness ==
    /\ date_pc = "returned"
    /\ at_time = [date |-> 4, time |-> [hour |-> 11, minute |-> 0, second |-> 0]]
    /\ release_days = 0..4
    /\ release_date.date = 7
    /\ weekday(release_date.date) = MONDAY

CREATED == 201

OtherStatuses == {421, 500}

\* the error create_tag raises
TagError(type, status, tag, existing, requested) ==
    [type |-> type, status |-> status, tag |-> tag, existing |-> existing,
     requested |-> requested]

\* a handler that re-raises no failure of create_git_ref
reraised_never(status) == FALSE

\* `if exc.status != 422: raise`
reraised(status) == status # UNPROCESSABLE_ENTITY

TagInit ==
    /\ refs \in [TagNames -> SHAs \cup {NoSha}]
    /\ tags = {}
    /\ TagAtRest
    /\ NoPolling
    /\ NoMessaging
    /\ NoDates
    /\ NoCommits
    /\ NoPrRange
    /\ NoSummaries
    /\ NoAmi
    /\ NoAdvance
    /\ NoRace

\* create_tag(sha, tag_name), create_git_ref answering with `status`
CreateTag(sha, tag_name, status) ==
    /\ ~tag_call.made
    /\ tag_call' = [made |-> TRUE, sha |-> sha, tag_name |-> tag_name,
                    status |-> status, before |-> refs]
    \* create_git_tag: the tag object
    /\ tags' = tags \cup {<<tag_name, sha>>}
    /\ IF status = CREATED
       THEN /\ refs[tag_name] = NoSha
            /\ refs' = [refs EXCEPT ![tag_name] = sha]
            /\ tag_result' = GitTag(tag_name, sha)
            /\ tag_error' = NoTagError
       ELSE /\ UNCHANGED refs
            /\ IF reraised(status)
               THEN /\ tag_error' = TagError("GithubException", status, "", "", "")
                    /\ tag_result' = NoTag
               ELSE \* get_git_ref('tags/<tag_name>')
                    IF refs[tag_name] = NoSha
                    THEN /\ tag_error' = TagError("UnknownObjectException", 404, "", "", "")
                         /\ tag_result' = NoTag
                    ELSE IF refs[tag_name] # sha
                         THEN /\ tag_error' = TagError("GitTagMismatchError", 0, tag_name,
                                                       refs[tag_name], sha)
                              /\ tag_result' = NoTag
                         ELSE /\ tag_error' = NoTagError
                              /\ tag_result' = GitTag(tag_name, sha)
    /\ UNCHANGED outside_tag

\* create_git_ref creates the ref
create_tag ==
    \E sha \in SHAs, tag_name \in TagNames : CreateTag(sha, tag_name, CREATED)

\* create_git_ref fails with 422: the ref exists, or the request is refused
\* for another reason
create_tag_unprocessable ==
    \E sha \in SHAs, tag_name \in TagNames : CreateTag(sha, tag_name, UNPROCESSABLE_ENTITY)

\* create_git_ref fails with another status
create_tag_failed ==
    \E sha \in SHAs, tag_name \in TagNames, status \in OtherStatuses :
        CreateTag(sha, tag_name, status)

\* the caller is done with what the call returned or raised
tag_done ==
    /\ tag_call.made
    /\ tag_call' = NoTagCall
    /\ tag_result' = NoTag
    /\ tag_error' = NoTagError
    /\ UNCHANGED <<refs, tags>>
    /\ UNCHANGED outside_tag

TagNext ==
    \/ create_tag
    \/ create_tag_unprocessable
    \/ create_tag_failed
    \/ tag_done

TagSpec == TagInit /\ [][TagNext]_vars

(***************************************************************************)
(* Properties of create_tag (checked under TagSpec)                        *)
(***************************************************************************)
\* the SHA the ref of the call's tag pointed at before the call
ExistingSha == tag_call.before[tag_call.tag_name]

\* C17: a create_tag call whose ref creation fails with 422 while the ref
\* points at another SHA raises GitTagMismatchError naming the tag, the
\* existing SHA and the requested SHA; with the ref at the requested SHA it
\* raises nothing and returns the tag; a failure with any other status is
\* raised again as the GithubException it was. In all three cases every ref is
\* what it was, and no call ever changes a ref that existed.
C17_ConflictingTagRaises ==
    tag_call.made =>
        /\ (tag_call.status = 422 /\ ExistingSha \notin {NoSha, tag_call.sha}) =>
               /\ tag_error = TagError("GitTagMismatchError", 0, tag_call.tag_name,
                                       ExistingSha, tag_call.sha)
               /\ tag_result = NoTag
               /\ refs = tag_call.before
        /\ (tag_call.status = 422 /\ ExistingSha = tag_call.sha) =>
               /\ tag_error = NoTagError
               /\ tag_result = GitTag(tag_call.tag_name, tag_call.sha)
               /\ refs = tag_call.before
        /\ tag_call.status \notin {201, 422} =>
               /\ tag_error.type = "GithubException"
               /\ tag_error.status = tag_call.status
               /\ tag_result = NoTag
               /\ refs = tag_call.before
        /\ \A t \in TagNames : tag_call.before[t] # NoSha => refs[t] = tag_call.before[t]

C17_Witness ==
    /\ tag_call.made
    /\ tag_call.status = 422
    /\ tag_call.sha = "abc"
    /\ tag_call.tag_name = "release-1"
    /\ ExistingSha = "def"
    /\ tag_error.type = "GitTagMismatchError"
    /\ tag_error.existing = "def"
    /\ tag_error.requested = "abc"
    /\ refs["release-1"] = "def"

(***************************************************************************)
(* More properties of the commit-status poller                             *)
(***************************************************************************)
\* C18 (checked under EnvSpec): a running poll_for_commit_successful call
\* works with the values the environment had when the call was made.
C18_ConfigReadAtCallTime ==
    pc \in {"poll", "sleep"} => <<max_tries, initial_wait, interval>> = environ

\* C19 (checked under PollSpec): when a status fetch raises an error other
\* than a socket timeout, neither retry layer sleeps or retries: the call has
\* raised that error, it has returned nothing, and the failed fetch is the
\* last fetch of the call.
C19_OtherErrorsSurface ==
    /\ last_resp.kind = "unknown_object" =>
           /\ pc = "raised"
           /\ error = "UnknownObjectException"
           /\ result = "unset"
           /\ sleeping.layer = "none"
    /\ error = "UnknownObjectException" =>
           /\ pc = "raised"
           /\ last_resp.kind = "unknown_object"

\* the not-found error comes after a 'pending' answer and a retried timeout
C19_Witness ==
    /\ pc = "raised"
    /\ error = "UnknownObjectException"
    /\ last_resp.kind = "unknown_object"
    /\ fetches = 3
    /\ timeouts = 1
    /\ ret = STR_pending

(***************************************************************************)
(* most_recent_good_commit(branch)                                         *)
(***************************************************************************)
\* the combined statuses of the commits of the branch: successful (in either
\* case), 'success' without a status entry, no state, failed, pending
CommitStatusSamples ==
    {[kind |-> "status", state |-> STR_success, statuses |-> 1],
     [kind |-> "status", state |-> STR_SUCCESS, statuses |-> 1],
     [kind |-> "status", state |-> STR_success, statuses |-> 0],
     [kind |-> "status", state |-> None, statuses |-> 1],
     [kind |-> "status", state |-> STR_failure, statuses |-> 1],
     [kind |-> "status", state |-> STR_pending, statuses |-> 1]}

\* what get_commits_by_branch can return
CommitLists == UNION {[1..k -> CommitStatusSamples] : k \in 0..MaxCommits}

\* a comparison of the state as it is, without lower()
state_is_success_exact(state) == state = STR_success

\* commit_status.state.lower() == 'success'
state_is_success(state) == lower(state) = STR_success

\* a status check that looks at the state only
is_commit_successful_state_only(commit_status) ==
    IF commit_status.state = None
    THEN FALSE
    ELSE lower(commit_status.state) = STR_success

\* is_commit_successful(sha), get_commit_combined_statuses answering
\* commit_status
is_commit_successful(commit_status) ==
    IF commit_status.statuses < 1 \/ commit_status.state = None
    THEN FALSE
    ELSE state_is_success(commit_status.state)

CommitInit ==
    /\ commits \in CommitLists
    /\ CommitAtRest
    /\ NoPolling
    /\ NoMessaging
    /\ NoDates
    /\ NoTags
    /\ NoPrRange
    /\ NoSummaries
    /\ NoAmi
    /\ NoAdvance
    /\ NoRace

\* commits = self.get_commits_by_branch(branch); result = None
most_recent_good_commit ==
    /\ commit_pc = "idle"
    /\ commit_pc' = "loop"
    /\ commit_index' = 1
    /\ checks' = << >>
    /\ good_commit' = 0
    /\ commit_error' = "none"
    /\ commit_ok' = "unset"
    /\ UNCHANGED commits
    /\ UNCHANGED outside_commit

\* one turn of `for commit in commits`: the status of the commit is fetched
\* and checked
check_commit ==
    /\ commit_pc = "loop"
    /\ commit_index <= Len(commits)
    /\ checks' = Append(checks, commit_index)
    /\ commit_ok' = IF is_commit_successful(commits[commit_index])
                    THEN "True" ELSE "False"
    /\ IF is_commit_successful(commits[commit_index])
       THEN /\ good_commit' = commit_index
            /\ commit_pc' = "returned"
            /\ UNCHANGED commit_index
       ELSE /\ commit_index' = commit_index + 1
            /\ UNCHANGED <<good_commit, commit_pc>>
    /\ UNCHANGED <<commits, commit_error>>
    /\ UNCHANGED outside_commit

\* one turn of the loop: the status fetch raises, and so does the call
check_commit_raises ==
    /\ commit_pc = "loop"
    /\ commit_index <= Len(commits)
    /\ checks' = Append(checks, commit_index)
    /\ commit_pc' = "raised"
    /\ commit_error' = "UnknownObjectException"
    /\ UNCHANGED <<commits, commit_index, good_commit, commit_ok>>
    /\ UNCHANGED outside_commit

\* the loop has run out: raise NoValidCommitsError()
no_valid_commits ==
    /\ commit_pc = "loop"
    /\ commit_index > Len(commits)
    /\ commit_pc' = "raised"
    /\ commit_error' = "NoValidCommitsError"
    /\ UNCHANGED <<commits, commit_index, checks, good_commit, commit_ok>>
    /\ UNCHANGED outside_commit

\* the caller is done with what the call returned or raised
commit_done ==
    /\ commit_pc \in {"returned", "raised"}
    /\ commit_pc' = "idle"
    /\ commit_index' = 0
    /\ checks' = << >>
    /\ good_commit' = 0
    /\ commit_error' = "none"
    /\ commit_ok' = "unset"
    /\ UNCHANGED commits
    /\ UNCHANGED outside_commit

CommitNext ==
    \/ most_recent_good_commit
    \/ check_commit
    \/ check_commit_raises
    \/ no_valid_commits
    \/ commit_done

CommitSpec == CommitInit /\ [][CommitNext]_vars

(***************************************************************************)
(* Properties of most_recent_good_commit (checked under CommitSpec)        *)
(***************************************************************************)
\* the positions of the commits whose tests have passed: at least one status
\* entry and the state 'success', in whatever case
GoodPositions ==
    {i \in 1..Len(commits) :
        /\ commits[i].statuses >= 1
        /\ commits[i].state \in {STR_success, STR_SUCCESS}}

\* the least position of a good commit
FirstGood == CHOOSE i \in GoodPositions : \A j \in GoodPositions : i <= j

\* C20: the statuses are checked in the order of the commits, from the first
\* commit on, and no check is made after a check of a good commit; a call
\* that returns, returns the first good commit after exactly as many checks
\* as its position; when no commit is good (and every status fetch answers)
\* the call checks every commit and raises NoValidCommitsError, and it raises
\* that error in no other case.
C20_FirstGoodCommit ==
    /\ \A k \in 1..Len(checks) : checks[k] = k
    /\ \A k \in 1..(Len(checks) - 1) : checks[k] \notin GoodPositions
    /\ commit_pc = "returned" =>
           /\ GoodPositions # {}
           /\ good_commit = FirstGood
           /\ Len(checks) = good_commit
           /\ commit_error = "none"
    /\ (commit_pc = "raised" /\ commit_error # "UnknownObjectException") =>
           /\ commit_error = "NoValidCommitsError"
           /\ GoodPositions = {}
           /\ Len(checks) = Len(commits)
           /\ good_commit = 0
    /\ (commit_pc \in {"returned", "raised"} /\ GoodPositions = {}
            /\ commit_error # "UnknownObjectException") =>
           commit_error = "NoValidCommitsError"

\* the second of three commits is the first good one; the third is good too
C20_Witness ==
    /\ commit_pc = "returned"
    /\ Len(commits) = 3
    /\ GoodPositions = {2, 3}
    /\ good_commit = 2
    /\ checks = <<1, 2>>

\* the combined status the last check fetched
LastChecked == commits[checks[Len(checks)]]

\* C21 (checked under CommitSpec): whenever the status fetch of a check has
\* answered, is_commit_successful has returned True or False, and True exactly
\* when the combined status has at least one status entry and a state that is
\* not None and is 'success' in whatever case; 'pending', 'failure', a None
\* state and zero status entries all give False.
C21_SuccessfulIffSuccessState ==
    (checks # << >> /\ commit_error # "UnknownObjectException") =>
        /\ commit_ok \in {"True", "False"}
        /\ commit_ok = "True" <=>
               /\ LastChecked.statuses >= 1
               /\ LastChecked.state # None
               /\ LastChecked.state \in {STR_success, STR_SUCCESS}
        /\ (\/ LastChecked.state \in {STR_pending, STR_failure, None}
            \/ LastChecked.statuses = 0) => commit_ok = "False"

\* 'success' without a status entry was refused, 'SUCCESS' with one is taken
C21_Witness ==
    /\ commit_pc = "returned"
    /\ checks = <<1, 2>>
    /\ commits[1] = [kind |-> "status", state |-> STR_success, statuses |-> 0]
    /\ commits[2] = [kind |-> "status", state |-> STR_SUCCESS, statuses |-> 1]
    /\ commit_ok = "True"

(***************************************************************************)
(* get_pr_range(start_sha, end_sha)                                        *)
(***************************************************************************)
\* the SHAs of the commits of the comparison; the first two begin alike
FullShas == {<<"a", "b", "c">>, <<"a", "b", "d">>, <<"c", "d", "e">>}

\* what github_repo.compare can answer
PrCommitLists == UNION {[1..k -> FullShas] : k \in 0..MaxPrCommits}

\* the values of SHA_LENGTH and BATCH_SIZE: set in the environment, or the
\* default
ShaLengths == {2, SHA_LENGTH_DEFAULT}

BatchSizes == {1, 2, BATCH_SIZE_DEFAULT}

\* the numbers of the pull requests a search can find, and what one search
\* answers
SearchResults == {<< >>, <<1>>, <<2>>, <<1, 2>>}

\* github.PullRequest.PullRequest
PullRequest(number) == [number |-> number]

\* s[a:b] of a string or a list, for 0 <= a <= b
slice(s, a, b) ==
    IF a >= Len(s) THEN << >>
    ELSE SubSeq(s, a + 1, IF b < Len(s) THEN b ELSE Len(s))

\* ' '.join(strs)
RECURSIVE join(_)
join(strs) ==
    IF Len(strs) = 0 THEN << >>
    ELSE IF Len(strs) = 1 THEN strs[1]
    ELSE strs[1] \o <<" ">> \o join(Tail(strs))

\* a batch that runs to the end of the list
sha_batch_to_end(batchable, index, size) == slice(batchable, index, Len(batchable))

\* batch(): batchable[index:index + batch_size]
sha_batch(batchable, index, size) == slice(batchable, index, index + size)

\* the None pulls.get answers for a missing key
NoPullRequest == [number |-> 0]

\* pulls.get(number): None when the key is missing
dict_get(dict, key) == IF key \in DOMAIN dict THEN dict[key] ELSE NoPullRequest

\* pulls[number] = value
dict_set(dict, key, value) ==
    [k \in DOMAIN dict \cup {key} |-> IF k = key THEN value ELSE dict[k]]

\* the loop `for issue in issues`, from the i-th issue on; get_pull answers
\* the pull request of the number
RECURSIVE collect_pulls(_, _, _)
collect_pulls(found, i, dict) ==
    IF i > Len(found) THEN dict
    ELSE IF dict_get(dict, found[i]) = NoPullRequest
         THEN collect_pulls(found, i + 1, dict_set(dict, found[i], PullRequest(found[i])))
         ELSE collect_pulls(found, i + 1, dict)

\* the orders list(pulls.values()) can have
Orders(keys) ==
    {order \in [1..Cardinality(keys) -> keys] :
        \A i, j \in 1..Cardinality(keys) : order[i] = order[j] => i = j}

PrInit ==
    /\ NoPrRange
    /\ NoPolling
    /\ NoMessaging
    /\ NoDates
    /\ NoTags
    /\ NoCommits
    /\ NoSummaries
    /\ NoAmi
    /\ NoAdvance
    /\ NoRace

\* the call reads SHA_LENGTH and BATCH_SIZE, compares the two SHAs and trims
\* the SHAs of the commits
get_pr_range ==
    /\ pr_pc = "idle"
    /\ \E cs \in PrCommitLists, sl \in ShaLengths, bs \in BatchSizes :
        /\ pr_commits' = cs
        /\ sha_length' = sl
        /\ batch_size' = bs
        /\ shas' = [i \in 1..Len(cs) |-> slice(cs[i], 0, sl)]
    /\ batch_index' = 0
    /\ queries' = << >>
    /\ issues' = << >>
    /\ pulls' = << >>
    /\ pr_result' = << >>
    /\ pr_pc' = "search"
    /\ UNCHANGED outside_pr

\* one turn of `for sha_batch in batch(shas)`: one search query
search_issues ==
    /\ pr_pc = "search"
    /\ batch_index < Len(shas)
    /\ queries' = Append(queries, join(sha_batch(shas, batch_index, batch_size)))
    /\ \E found \in SearchResults : issues' = issues \o found
    /\ batch_index' = batch_index + batch_size
    /\ UNCHANGED <<pr_pc, pr_commits, sha_length, batch_size, shas, pulls, pr_result>>
    /\ UNCHANGED outside_pr

\* the batches have run out: the pull requests are fetched, once each, and
\* returned
return_pulls ==
    /\ pr_pc = "search"
    /\ batch_index >= Len(shas)
    /\ pulls' = collect_pulls(issues, 1, << >>)
    /\ \E order \in Orders(DOMAIN pulls') :
        pr_result' = [i \in DOMAIN order |-> pulls'[order[i]]]
    /\ pr_pc' = "returned"
    /\ UNCHANGED <<pr_commits, sha_length, batch_size, shas, batch_index, queries, issues>>
    /\ UNCHANGED outside_pr

\* a search (or get_pull) raises, and so does the call
pr_range_raises ==
    /\ pr_pc = "search"
    /\ pr_pc' = "raised"
    /\ UNCHANGED <<pr_commits, sha_length, batch_size, shas, batch_index, queries,
                   issues, pulls, pr_result>>
    /\ UNCHANGED outside_pr

\* the caller is done with what the call returned or raised
pr_range_done ==
    /\ pr_pc \in {"returned", "raised"}
    /\ pr_pc' = "idle"
    /\ pr_commits' = << >>
    /\ sha_length' = 0
    /\ batch_size' = 0
    /\ shas' = << >>
    /\ batch_index' = 0
    /\ queries' = << >>
    /\ issues' = << >>
    /\ pulls' = << >>
    /\ pr_result' = << >>
    /\ UNCHANGED outside_pr

PrNext ==
    \/ get_pr_range
    \/ search_issues
    \/ return_pulls
    \/ pr_range_raises
    \/ pr_range_done

PrSpec == PrInit /\ [][PrNext]_vars

(***************************************************************************)
(* Properties of get_pr_range (checked under PrSpec)                       *)
(***************************************************************************)
\* the number of SHAs of a query: its words
Words(query) == Cardinality({i \in 1..Len(query) : query[i] = " "}) + 1

\* a commit's SHA cut to its first sha_length characters
Trimmed(sha) == [i \in 1..(IF Len(sha) < sha_length THEN Len(sha) ELSE sha_length) |-> sha[i]]

\* the position in pr_commits of the w-th SHA of the q-th query
PositionOf(q, w) == (q - 1) * batch_size + w

\* the number of SHAs the q-th query holds
SizeOf(q) ==
    IF q * batch_size <= Len(pr_commits) THEN batch_size
    ELSE Len(pr_commits) - (q - 1) * batch_size

\* C22: a get_pr_range call that returns over n commits has issued
\* ceil(n / batch_size) search queries (one for up to 18 commits with the
\* default), the q-th of them over the trimmed SHAs of the q-th run of
\* batch_size commits (the last run may be shorter), never over more than
\* batch_size SHAs nor over an untrimmed one; the list it returns holds one
\* pull request for each number the searches found, and none of them twice.
C22_BatchedSearchesUniquePulls ==
    pr_pc = "returned" =>
        /\ Len(queries) = (Len(pr_commits) + batch_size - 1) \div batch_size
        /\ \A q \in 1..Len(queries) :
               /\ Words(queries[q]) <= batch_size
               /\ Len(queries[q]) <= batch_size * sha_length + (batch_size - 1)
               /\ queries[q] = join([w \in 1..SizeOf(q) |->
                                        Trimmed(pr_commits[PositionOf(q, w)])])
        /\ \A i, j \in 1..Len(pr_result) :
               pr_result[i].number = pr_result[j].number => i = j
        /\ {pr_result[i].number : i \in 1..Len(pr_result)}
               = {issues[i] : i \in 1..Len(issues)}

\* three commits in batches of two, SHAs cut to two characters; the second
\* search finds a pull request the first one found
C22_Witness ==
    /\ pr_pc = "returned"
    /\ batch_size = 2
    /\ sha_length = 2
    /\ pr_commits = << <<"a", "b", "c">>, <<"a", "b", "d">>, <<"c", "d", "e">> >>
    /\ queries = << <<"a", "b", " ", "a", "b">>, <<"c", "d">> >>
    /\ issues = <<1, 2, 1>>
    /\ Len(pr_result) = 2

(***************************************************************************)
(* extract_message_summary(message, max_length)                            *)
(***************************************************************************)
\* the commit messages: letters and line ends
CommitMessages == UNION {[1..k -> {"a", "b", "\n"}] : k \in 0..MaxMessageLen}

\* the values of max_length: given by the caller, or the default
MaxLengths == {2, 3, MAX_LENGTH_DEFAULT}

\* message.split('\n')[0], from the i-th character on
RECURSIVE first_line(_, _)
first_line(message, i) ==
    IF i > Len(message) \/ message[i] = "\n" THEN << >>
    ELSE <<message[i]>> \o first_line(message, i + 1)

\* extract_message_summary(message, max_length)
extract_message_summary_of(message, max_length) ==
    LET title == first_line(message, 1)
    IN IF Len(title) < max_length
       THEN title
       ELSE slice(title, 0, max_length) \o <<".", ".", ".">>

SummaryInit ==
    /\ NoSummaries
    /\ NoPolling
    /\ NoMessaging
    /\ NoDates
    /\ NoTags
    /\ NoCommits
    /\ NoPrRange
    /\ NoAmi
    /\ NoAdvance
    /\ NoRace

extract_message_summary ==
    /\ ~sum_call.made
    /\ \E message \in CommitMessages, max_length \in MaxLengths :
        /\ sum_call' = [made |-> TRUE, message |-> message, max_length |-> max_length]
        /\ summary' = extract_message_summary_of(message, max_length)
    /\ UNCHANGED outside_sum

\* the caller is done with the summary
summary_done ==
    /\ sum_call.made
    /\ sum_call' = NoSummaryCall
    /\ summary' = << >>
    /\ UNCHANGED outside_sum

SummaryNext ==
    \/ extract_message_summary
    \/ summary_done

SummarySpec == SummaryInit /\ [][SummaryNext]_vars

(***************************************************************************)
(* Properties of extract_message_summary (checked under SummarySpec)       *)
(***************************************************************************)
\* the positions of the line ends of the message of the call
LineEnds == {i \in 1..Len(sum_call.message) : sum_call.message[i] = "\n"}

\* the first line of the message of the call: what comes before its first
\* line end
Title ==
    IF LineEnds = {} THEN sum_call.message
    ELSE [i \in 1..((CHOOSE e \in LineEnds : \A f \in LineEnds : e <= f) - 1) |->
             sum_call.message[i]]

\* C23: the summary is the first line of the message, unchanged, when the
\* first line is not longer than max_length; otherwise it is the first
\* max_length characters of the first line followed by '...'.
C23_EllipsisOnlyWhenCut ==
    sum_call.made =>
        IF Len(Title) <= sum_call.max_length
        THEN summary = Title
        ELSE summary = [i \in 1..sum_call.max_length |-> Title[i]] \o <<".", ".", ".">>

(***************************************************************************)
(* scripts/retrieve_base_ami.py: retrieve_base_ami                         *)
(***************************************************************************)
\* the values of the options: not given (None), or given; --override and
\* --out_file can be given as the empty string
EdpValues == {None, <<"x">>}

OverrideValues == {None, << >>, <<"a", "m", "i">>}

OutFileValues == {None, << >>, <<"f">>}

AmiOptions == [given : {TRUE}, environment : EdpValues, deployment : EdpValues,
               play : EdpValues, override : OverrideValues, out_file : OutFileValues]

\* the test `if x:` of an option: None and the empty string are false
truthy(x) == x # None /\ x # << >>

\* has_edp = environment is not None or deployment is not None or play is not None
has_edp(opts) ==
    opts.environment # None \/ opts.deployment # None \/ opts.play # None

AmiInit ==
    /\ NoAmi
    /\ NoPolling
    /\ NoMessaging
    /\ NoDates
    /\ NoTags
    /\ NoCommits
    /\ NoPrRange
    /\ NoSummaries
    /\ NoAdvance
    /\ NoRace

\* sys.exit(status)
Exit(status) ==
    /\ ami_pc' = "exited"
    /\ exit_status' = status

\* the script starts and checks its options
retrieve_base_ami ==
    /\ ami_pc = "idle"
    /\ \E opts \in AmiOptions :
        /\ ami_opts' = opts
        /\ IF (has_edp(opts) /\ opts.override # None)
              \/ (~has_edp(opts) /\ opts.override = None)
           THEN /\ ami_log' = Append(ami_log, "logging.error")
                /\ Exit("1")
           ELSE /\ ami_pc' = "find"
                /\ UNCHANGED <<ami_log, exit_status>>
    /\ UNCHANGED ami_id
    /\ UNCHANGED outside_ami

\* ami_id = override, or ec2.active_ami_for_edp answers
find_ami ==
    /\ ami_pc = "find"
    /\ IF truthy(ami_opts.override)
       THEN /\ ami_id' = ami_opts.override
            /\ UNCHANGED ami_log
       ELSE /\ ami_id' = <<"a", "m", "i">>
            /\ ami_log' = Append(ami_log, "active_ami_for_edp")
    /\ ami_pc' = "tags"
    /\ UNCHANGED <<ami_opts, exit_status>>
    /\ UNCHANGED outside_ami

\* ec2.active_ami_for_edp raises: traceback, click.secho, sys.exit(1)
find_ami_raises ==
    /\ ami_pc = "find"
    /\ ~truthy(ami_opts.override)
    /\ ami_log' = ami_log \o <<"active_ami_for_edp", "secho">>
    /\ Exit("1")
    /\ UNCHANGED <<ami_opts, ami_id>>
    /\ UNCHANGED outside_ami

\* ec2.tags_for_ami answers; the information is written to out_file or
\* printed; sys.exit(0)
write_ami_info ==
    /\ ami_pc = "tags"
    /\ ami_log' = ami_log \o <<"tags_for_ami", "logging.info",
                               IF truthy(ami_opts.out_file) THEN "file" ELSE "print">>
    /\ Exit("0")
    /\ UNCHANGED <<ami_opts, ami_id>>
    /\ UNCHANGED outside_ami

\* ec2.tags_for_ami raises: traceback, click.secho, sys.exit(1)
tags_for_ami_raises ==
    /\ ami_pc = "tags"
    /\ ami_log' = ami_log \o <<"tags_for_ami", "secho">>
    /\ Exit("1")
    /\ UNCHANGED <<ami_opts, ami_id>>
    /\ UNCHANGED outside_ami

\* the script is run again
ami_done ==
    /\ ami_pc = "exited"
    /\ ami_pc' = "idle"
    /\ ami_opts' = NoOptions
    /\ ami_id' = None
    /\ ami_log' = << >>
    /\ exit_status' = "none"
    /\ UNCHANGED outside_ami

AmiNext ==
    \/ retrieve_base_ami
    \/ find_ami
    \/ find_ami_raises
    \/ write_ami_info
    \/ tags_for_ami_raises
    \/ ami_done

AmiSpec == AmiInit /\ [][AmiNext]_vars

(***************************************************************************)
(* Properties of retrieve_base_ami (checked under AmiSpec)                 *)
(***************************************************************************)
\* the options of the run are one of the two forms: --environment,
\* --deployment and --play, all three, without --override; or --override
\* without any of the three
OneOfTheTwoForms ==
    \/ /\ ami_opts.environment # None
       /\ ami_opts.deployment # None
       /\ ami_opts.play # None
       /\ ami_opts.override = None
    \/ /\ ami_opts.environment = None
       /\ ami_opts.deployment = None
       /\ ami_opts.play = None
       /\ ami_opts.override # None

\* C24: a run whose options are not one of the two forms has logged an error
\* and exited with status 1, and has done nothing else: no AMI lookup, no
\* output.
C24_OtherOptionsExitOne ==
    (ami_opts.given /\ ~OneOfTheTwoForms) =>
        /\ ami_pc = "exited"
        /\ exit_status = "1"
        /\ ami_log = <<"logging.error">>

(***************************************************************************)
(* tubular/scripts/find_and_advance_pipeline.py: find_and_advance_pipeline *)
(***************************************************************************)
\* --relative_dt: not given, empty, a date, or a string that is no date
RelativeDts == {None, << >>, <<"2">>, <<"x">>}

\* --out_file: not given, empty, a file name, or a file in a directory
OutFiles == {None, << >>, <<"f">>, <<"d", "/", "f">>}

\* --hipchat_token: not given, empty, or a token
HipchatTokens == {None, << >>, <<"t">>}

\* the pipelines that gocd.fetch_pipeline_to_advance can answer
Pipelines == {"p1", "p2"}

AdvanceOptions == [given : {TRUE}, relative_dt : RelativeDts, out_file : OutFiles,
                   hipchat_token : HipchatTokens]

\* dateutil's parser.parse accepts the string: it raises ValueError for a
\* string without any date in it
parses(timestr) ==
    \E i \in 1..Len(timestr), d \in 1..Len(Digits) : timestr[i] = Digits[d]

\* os.path.dirname: what stands before the last slash, without its trailing
\* slashes unless it is made of slashes only
dirname(p) ==
    LET slashes == {i \in 1..Len(p) : p[i] = "/"}
        last == IF slashes = {} THEN 0
                ELSE CHOOSE i \in slashes : \A j \in slashes : j <= i
        head == SubSeq(p, 1, last)
        others == {i \in 1..Len(head) : head[i] # "/"}
    IN  IF others = {} THEN head
        ELSE SubSeq(head, 1, CHOOSE i \in others : \A j \in others : j <= i)

\* one call made by the script, or the exception that ended it
Call(name, arg) == [call |-> name, arg |-> arg]

\* a test that sends the message with or without a token
sends_message_always(hipchat_token) == TRUE

\* if hipchat_token:
sends_message(hipchat_token) == truthy(hipchat_token)

AdvanceInit ==
    /\ NoAdvance
    /\ NoPolling
    /\ NoMessaging
    /\ NoDates
    /\ NoTags
    /\ NoCommits
    /\ NoPrRange
    /\ NoSummaries
    /\ NoAmi
    /\ NoRace

\* an exception leaves the script
adv_raise(from) ==
    /\ adv_log' = Append(adv_log, Call("raise", from))
    /\ adv_pc' = "raised"

\* the script starts: GoCDAPI(...), and relative_dt is parsed when given
find_and_advance_pipeline ==
    /\ adv_pc = "idle"
    /\ \E opts \in AdvanceOptions :
        /\ adv_opts' = opts
        /\ IF truthy(opts.relative_dt) /\ ~parses(opts.relative_dt)
           THEN adv_raise("parser.parse")
           ELSE /\ adv_pc' = "fetch"
                /\ UNCHANGED adv_log
    /\ UNCHANGED pipeline_to_advance
    /\ UNCHANGED outside_adv

\* gocd.fetch_pipeline_to_advance answers a pipeline
fetch_pipeline_to_advance ==
    /\ adv_pc = "fetch"
    /\ \E p \in Pipelines :
        /\ pipeline_to_advance' = p
        /\ adv_log' = Append(adv_log, Call("fetch_pipeline_to_advance", p))
    /\ adv_pc' = "approve"
    /\ UNCHANGED adv_opts
    /\ UNCHANGED outside_adv

\* gocd.fetch_pipeline_to_advance raises
fetch_pipeline_to_advance_raises ==
    /\ adv_pc = "fetch"
    /\ adv_raise("fetch_pipeline_to_advance")
    /\ UNCHANGED <<adv_opts, pipeline_to_advance>>
    /\ UNCHANGED outside_adv

\* gocd.approve_stage(pipeline_to_advance.name, ...) returns
approve_stage ==
    /\ adv_pc = "approve"
    /\ adv_log' = adv_log \o <<Call("approve_stage", pipeline_to_advance),
                              Call("LOG.info", pipeline_to_advance)>>
    /\ adv_pc' = "write"
    /\ UNCHANGED <<adv_opts, pipeline_to_advance>>
    /\ UNCHANGED outside_adv

\* gocd.approve_stage raises
approve_stage_raises ==
    /\ adv_pc = "approve"
    /\ adv_raise("approve_stage")
    /\ UNCHANGED <<adv_opts, pipeline_to_advance>>
    /\ UNCHANGED outside_adv

\* if out_file: the directory is made when there is one, and advance_info is
\* dumped to the file
write_artifact ==
    /\ adv_pc = "write"
    /\ adv_log' = adv_log \o
            (IF ~truthy(adv_opts.out_file) THEN << >>
             ELSE (IF dirname(adv_opts.out_file) # << >>
                   THEN <<Call("os.makedirs", pipeline_to_advance)>>
                   ELSE << >>)
                  \o <<Call("yaml.safe_dump", pipeline_to_advance)>>)
    /\ adv_pc' = "notify"
    /\ UNCHANGED <<adv_opts, pipeline_to_advance>>
    /\ UNCHANGED outside_adv

\* os.makedirs or io.open raises
write_artifact_raises ==
    /\ adv_pc = "write"
    /\ truthy(adv_opts.out_file)
    /\ adv_raise("io.open")
    /\ UNCHANGED <<adv_opts, pipeline_to_advance>>
    /\ UNCHANGED outside_adv

\* if hipchat_token: submit_hipchat_message(...); the script returns
submit_hipchat_message ==
    /\ adv_pc = "notify"
    /\ adv_log' = IF sends_message(adv_opts.hipchat_token)
                  THEN Append(adv_log, Call("submit_hipchat_message", pipeline_to_advance))
                  ELSE adv_log
    /\ adv_pc' = "returned"
    /\ UNCHANGED <<adv_opts, pipeline_to_advance>>
    /\ UNCHANGED outside_adv

\* submit_hipchat_message raises
submit_hipchat_message_raises ==
    /\ adv_pc = "notify"
    /\ sends_message(adv_opts.hipchat_token)
    /\ adv_raise("submit_hipchat_message")
    /\ UNCHANGED <<adv_opts, pipeline_to_advance>>
    /\ UNCHANGED outside_adv

\* the script is run again
adv_done ==
    /\ adv_pc \in {"returned", "raised"}
    /\ adv_pc' = "idle"
    /\ adv_opts' = NoOptions
    /\ pipeline_to_advance' = "none"
    /\ adv_log' = << >>
    /\ UNCHANGED outside_adv

AdvanceNext ==
    \/ find_and_advance_pipeline
    \/ fetch_pipeline_to_advance
    \/ fetch_pipeline_to_advance_raises
    \/ approve_stage
    \/ approve_stage_raises
    \/ write_artifact
    \/ write_artifact_raises
    \/ submit_hipchat_message
    \/ submit_hipchat_message_raises
    \/ adv_done

AdvanceSpec == AdvanceInit /\ [][AdvanceNext]_vars

(***************************************************************************)
(* Properties of find_and_advance_pipeline (checked under AdvanceSpec)     *)
(***************************************************************************)
\* the positions of the log where the call was made
Made(name) == {i \in 1..Len(adv_log) : adv_log[i].call = name}

\* the positions where the artifact file was written, and where the chat
\* message was sent
Written == Made("yaml.safe_dump")

Sent == Made("submit_hipchat_message")

\* C25: the file is written and the message is sent only after approve_stage
\* returned for the pipeline that fetch_pipeline_to_advance had answered, and
\* they are about that pipeline; when either of the two calls raised there is
\* no file and no message; a message is sent only with a hipchat token, and,
\* in a run that writes the file, after the file was written.
C25_FileAndMessageAfterApproval ==
    /\ \A i \in Written \cup Sent :
        /\ adv_log[i].arg = pipeline_to_advance
        /\ \E f \in Made("fetch_pipeline_to_advance"), a \in Made("approve_stage") :
            /\ f < a
            /\ a < i
            /\ adv_log[f].arg = adv_log[i].arg
            /\ adv_log[a].arg = adv_log[i].arg
    /\ (\E r \in Made("raise") :
            adv_log[r].arg \in {"fetch_pipeline_to_advance", "approve_stage"})
        => Written \cup Sent = {}
    /\ \A i \in Sent :
        /\ truthy(adv_opts.hipchat_token)
        /\ truthy(adv_opts.out_file) => \E w \in Written : w < i
    /\ adv_pc = "returned" =>
        /\ truthy(adv_opts.out_file) <=> Written # {}
        /\ truthy(adv_opts.hipchat_token) <=> Sent # {}

\* a run that approved the stage, wrote the file in its directory and sent the
\* message
C25_Witness ==
    /\ adv_pc = "returned"
    /\ Made("os.makedirs") # {}
    /\ Written # {}
    /\ Sent # {}

(***************************************************************************)
(* Termination of poll_for_commit_successful: a status fetch is a blocking *)
(* call that answers or ends in socket.timeout, and time.sleep returns, so *)
(* a call that has been started takes its next step. Calls themselves are  *)
(* not forced.                                                             *)
(***************************************************************************)
PollLiveSpec ==
    /\ PollInit
    /\ [][PollNext]_vars
    /\ WF_vars(FetchStatus \/ FetchTimeout \/ FetchError)
    /\ WF_vars(PollWake)
    /\ WF_vars(ExcWake)

\* C26: every poll_for_commit_successful call ends, returned or raised,
\* whatever the fetches answer; one call makes at most max_tries fetches in
\* each of its ON_EXCEPTION_MAX_TRIES tries of the transient-fault layer:
\* 5 * 5 = 25 with the defaults.
C26_PollingTerminates ==
    /\ [](fetches <= max_tries * ON_EXCEPTION_MAX_TRIES)
    /\ [](max_tries = MAX_PR_TEST_TRIES_DEFAULT => fetches <= 25)
    /\ (pc \in {"poll", "sleep"}) ~> (pc \in {"returned", "raised"})

\* a call with the defaults that ended after 25 fetches
C26_Witness ==
    /\ max_tries = MAX_PR_TEST_TRIES_DEFAULT
    /\ fetches = 25
    /\ timeouts = ON_EXCEPTION_MAX_TRIES - 1
    /\ pc = "returned"

(***************************************************************************)
(* Two message_pull_request invocations at the same time on one pull       *)
(* request, unforced and with the same message and filter: each one is a   *)
(* sequence of three requests to the remote (get_pull, get_issue_comments, *)
(* create_issue_comment), and the requests of the two interleave.          *)
(***************************************************************************)
Invocations == {1, 2}

\* the filters of the two invocations
RaceFilters == {<<"b">>, <<"A", "b">>, <<"a", "a">>}

\* the comments of the pull request before the two invocations
RaceCommentLists ==
    {<< >>, <<<<"a", "a">>>>, <<<<"b", "A">>>>, <<<<"a", "a">>, <<"A", "b">>>>}

RaceInit ==
    /\ comments \in RaceCommentLists
    /\ MsgAtRest
    /\ NoRace
    /\ NoPolling
    /\ NoDates
    /\ NoTags
    /\ NoCommits
    /\ NoPrRange
    /\ NoSummaries
    /\ NoAmi
    /\ NoAdvance

\* the two invocations are made: message_pull_request(pr_number, message,
\* message_filter) twice
message_pull_request_twice ==
    /\ ~race_args.given
    /\ \E message \in Messages, message_filter \in RaceFilters :
        race_args' = [given |-> TRUE, message |-> message,
                      message_filter |-> message_filter, force_message |-> FALSE,
                      before |-> comments]
    /\ race_pc' = <<"get_pull", "get_pull">>
    /\ race_seen' = <<<< >>, << >>>>
    /\ race_result' = <<NoComment, NoComment>>
    /\ UNCHANGED comments
    /\ UNCHANGED outside_race

\* self.github_repo.get_pull(pr_number) answers the pull request
get_pull(i) ==
    /\ race_args.given
    /\ race_pc[i] = "get_pull"
    /\ race_pc' = [race_pc EXCEPT ![i] = "get_issue_comments"]
    /\ UNCHANGED <<race_args, race_seen, race_result, comments>>
    /\ UNCHANGED outside_race

\* get_pull raises: the invocation raises
get_pull_raises(i) ==
    /\ race_args.given
    /\ race_pc[i] = "get_pull"
    /\ race_pc' = [race_pc EXCEPT ![i] = "raised"]
    /\ UNCHANGED <<race_args, race_seen, race_result, comments>>
    /\ UNCHANGED outside_race

\* pull_request.get_issue_comments() answers the comments the pull request
\* holds now, and the guard is evaluated on them: create, or return None
get_issue_comments(i) ==
    /\ race_args.given
    /\ race_pc[i] = "get_issue_comments"
    /\ race_seen' = [race_seen EXCEPT ![i] = comments]
    /\ race_pc' = [race_pc EXCEPT ![i] =
            IF should_create(race_args.force_message, comments, race_args.message_filter)
            THEN "create_issue_comment" ELSE "returned"]
    /\ UNCHANGED <<race_args, race_result, comments>>
    /\ UNCHANGED outside_race

\* return pull_request.create_issue_comment(message)
create_issue_comment(i) ==
    /\ race_args.given
    /\ race_pc[i] = "create_issue_comment"
    /\ comments' = Append(comments,
                          created_body(race_args.message, race_args.message_filter))
    /\ race_result' = [race_result EXCEPT ![i] =
            IssueComment(created_body(race_args.message, race_args.message_filter),
                         Len(comments) + 1)]
    /\ race_pc' = [race_pc EXCEPT ![i] = "returned"]
    /\ UNCHANGED <<race_args, race_seen>>
    /\ UNCHANGED outside_race

RaceNext ==
    \/ message_pull_request_twice
    \/ \E i \in Invocations :
        \/ get_pull(i)
        \/ get_pull_raises(i)
        \/ get_issue_comments(i)
        \/ create_issue_comment(i)

RaceSpec == RaceInit /\ [][RaceNext]_vars

(***************************************************************************)
(* Properties of two invocations at the same time (checked under RaceSpec) *)
(***************************************************************************)
\* the invocations that created a comment
Creators == {i \in DOMAIN race_result : ~race_result[i].is_none}

\* C27: when the pull request held no matching comment before the two
\* invocations, at most one of them creates a comment.
C27_AtMostOneCreates ==
    (race_args.given /\ not_duplicate(race_args.before, race_args.message_filter))
        => Cardinality(Creators) <= 1

(***************************************************************************)
(* Termination of default_expected_release_date: the loop is plain code,   *)
(* so a call that is in the loop takes its next step.                      *)
(***************************************************************************)
DateLiveSpec ==
    /\ DateInit
    /\ [][DateNext]_vars
    /\ WF_vars(advance_proposal)
    /\ WF_vars(advance_overflows)
    /\ WF_vars(return_release_date)

\* release_days of the call holds a weekday
HasWeekday == release_days \cap (0..6) # {}

\* a call has been made and the caller is not done with it
DateCalled == date_pc # "idle"

\* the call returns after at most 6 advances when release_days holds a weekday
TerminatesWithWeekday ==
    /\ []((DateCalled /\ HasWeekday) => (advances <= 6 /\ date_pc # "raised"))
    /\ (date_pc = "loop" /\ HasWeekday) ~> (date_pc = "returned")

\* C28 as stated: the call ends after at most 6 advances when release_days
\* holds a weekday of 0..6; when it holds none the loop never ends.
C28_NoWeekdayNeverEnds ==
    /\ TerminatesWithWeekday
    /\ []((DateCalled /\ ~HasWeekday) => date_pc = "loop")

\* C28, amended: the call returns after at most 6 advances when release_days
\* holds a weekday of 0..6; when it holds none the call never returns a date:
\* the loop advances the proposal up to the last date and then raises.
C28_NoWeekdayOverflows ==
    /\ TerminatesWithWeekday
    /\ []((DateCalled /\ ~HasWeekday) => date_pc # "returned")
    /\ (date_pc = "loop" /\ ~HasWeekday) ~> (date_pc = "raised" /\ proposal = MaxDate)

\* a call without any weekday that advanced more than 6 times and raised at
\* the last date
C28_Witness ==
    /\ date_pc = "raised"
    /\ ~HasWeekday
    /\ advances > 6
    /\ proposal = MaxDate

====
